---- MODULE Spec2Model ----
(***************************************************************************)
(* A model of the interactive shell of internal/shell (the snapshot with   *)
(* the raw-terminal Run loop): the command-line parser, the && chain, the  *)
(* redirection resolver (pipe), the builtin table and the dispatcher.      *)
(*                                                                         *)
(* Text is modelled byte by byte: a string is a sequence of one-byte       *)
(* strings; a fixed message of the program is one multi-character chunk.   *)
(***************************************************************************)
EXTENDS Integers, Sequences, FiniteSets, TLC

VARIABLES
    pc,        \* where Run is: "prompt", "exec", "ret", "done", "exited", "panic"; "read"/"parsed" for a bare parse
    line,      \* the input line handed to parseCommand (chain) or typed at the prompt
    stack,     \* Shell.stack: the parsed chain of Command records
    cur,       \* index in the chain of the command executeCommand is about to dispatch (0: none)
    trace,     \* one record per handler invocation of the current line, in order
    stdout,    \* bytes written to the terminal's standard output since Enter
    stderr,    \* bytes written to the terminal's standard error since Enter
    fs,        \* the file system's regular files: path -> content
    dirs,      \* the file system's directories
    cwd,       \* the process's working directory
    open,      \* redirect files opened and not yet closed (deferred Close pending), oldest first
    ret,       \* the error executeCommand returned for the line (<<>>: nil)
    exitCode   \* <<c>> once os.Exit(c) was called (pc = "exited"), else NoExit

vars == <<pc, line, stack, cur, trace, stdout, stderr, fs, dirs, cwd, open, ret, exitCode>>

----------------------------------------------------------------------------
(* Bounds of the model *)

\* longest raw line of the parser specification
MaxLen == 4
\* longest && chain typed at the prompt
MaxChain == 3
\* longest argument list handed to the resolver alone
MaxArgs == 4

----------------------------------------------------------------------------
(* Bytes and strings *)

SP == " "
SQ == "'"
DQ == "\""
BS == "\\"
GT == ">"
AMP == "&"
NL == "\n"
\* a byte >= 128 (0xE9) and the two bytes of the UTF-8 encoding of U+00E9
HiByte == "xE9"
HiEnc == <<"xC3", "xA9">>

\* strings.Builder.WriteRune(rune(b)) for an input byte b: a byte below 128 is
\* written as itself, a byte b >= 128 as the UTF-8 encoding of the code point b
WriteRune(c) == IF c = HiByte THEN HiEnc ELSE <<c>>

\* strings.HasPrefix
HasPrefix(s, p) == Len(s) >= Len(p) /\ SubSeq(s, 1, Len(p)) = p

RECURSIVE TrimLeft(_)
TrimLeft(s) == IF s # <<>> /\ Head(s) = SP THEN TrimLeft(Tail(s)) ELSE s

RECURSIVE TrimRight(_)
TrimRight(s) == IF s # <<>> /\ s[Len(s)] = SP THEN TrimRight(SubSeq(s, 1, Len(s) - 1)) ELSE s

\* strings.TrimSpace (of the white space an input line can hold: the space)
TrimSpace(s) == TrimRight(TrimLeft(s))

\* strings.Join(args, " ")
RECURSIVE Join(_)
Join(args) ==
    IF args = <<>> THEN <<>>
    ELSE IF Len(args) = 1 THEN args[1]
    ELSE args[1] \o <<SP>> \o Join(Tail(args))

----------------------------------------------------------------------------
(* The parser: Shell.parseCommand *)

\* the zero Command: op "", no args, nextCommand nil (0)
EmptyCommand == [op |-> <<>>, args |-> <<>>, nextCommand |-> 0]

\* a parseCommand that appends to the chain s.stack already holds
ParserInitStale ==
    [stack |-> stack, current |-> EmptyCommand, current_token |-> <<>>,
     singleQuote |-> FALSE, doubleQuote |-> FALSE, backslash |-> FALSE, isFirst |-> TRUE]

\* the locals of parseCommand before the scan, and s.stack = []Command{}
ParserInit ==
    [stack |-> <<>>, current |-> EmptyCommand, current_token |-> <<>>,
     singleQuote |-> FALSE, doubleQuote |-> FALSE, backslash |-> FALSE, isFirst |-> TRUE]

\* flushToken that forgets to clear isFirst: every token overwrites the operation
flushTokenKeepsFirst(p) ==
    IF Len(p.current_token) > 0
    THEN [p EXCEPT !.current.op = p.current_token, !.current_token = <<>>]
    ELSE p

\* a flushToken that appends an argument even when the token is empty
flushTokenEmpty(p) ==
    IF p.isFirst
    THEN IF Len(p.current_token) > 0
         THEN [p EXCEPT !.current.op = p.current_token, !.isFirst = FALSE, !.current_token = <<>>]
         ELSE p
    ELSE [p EXCEPT !.current.args = Append(@, p.current_token), !.current_token = <<>>]

flushToken(p) ==
    IF Len(p.current_token) > 0
    THEN IF p.isFirst
         THEN [p EXCEPT !.current.op = p.current_token, !.isFirst = FALSE, !.current_token = <<>>]
         ELSE [p EXCEPT !.current.args = Append(@, p.current_token), !.current_token = <<>>]
    ELSE p

\* a pushCommand that appends the command even when it has no operation
pushCommandAlways(p) ==
    LET q == flushToken(p) IN
    [q EXCEPT !.stack = Append(@, q.current), !.current = EmptyCommand, !.isFirst = TRUE]

\* a pushCommand that also appends a command that has arguments but no operation
pushCommandAnyArgs(p) ==
    LET q == flushToken(p) IN
    IF q.current.op # <<>> \/ q.current.args # <<>>
    THEN [q EXCEPT !.stack = Append(@, q.current), !.current = EmptyCommand, !.isFirst = TRUE]
    ELSE q

\* a pushCommand that drops what is pending while a quote is open
pushCommandClosedOnly(p) ==
    LET q == flushToken(p) IN
    IF q.current.op # <<>> /\ ~(p.singleQuote \/ p.doubleQuote)
    THEN [q EXCEPT !.stack = Append(@, q.current), !.current = EmptyCommand, !.isFirst = TRUE]
    ELSE q

pushCommand(p) ==
    LET q == flushToken(p) IN
    IF q.current.op # <<>>
    THEN [q EXCEPT !.stack = Append(@, q.current), !.current = EmptyCommand, !.isFirst = TRUE]
    ELSE q

\* a quote test that forgets the double quotes
quotedSingleOnly(p) == p.singleQuote

\* singleQuote || doubleQuote
quoted(p) == p.singleQuote \/ p.doubleQuote

\* an escape that leaves the backslash flag set
escapeKeepsFlag(p, c) == [p EXCEPT !.current_token = @ \o WriteRune(c)]

\* case backslash: the byte after a backslash is written to the token
escape(p, c) == [p EXCEPT !.current_token = @ \o WriteRune(c), !.backslash = FALSE]

\* one iteration of the scan loop of parseCommand at byte i (1-based): the
\* locals it leaves and the index of the next iteration
scanStep(input, i, p) ==
    LET c == input[i] IN
    IF p.backslash
    THEN [i |-> i + 1, p |-> escape(p, c)]
    ELSE IF c = BS
    THEN [i |-> i + 1, p |-> [p EXCEPT !.backslash = TRUE]]
    ELSE IF c = SQ /\ ~p.doubleQuote
    THEN [i |-> i + 1, p |-> [p EXCEPT !.singleQuote = ~@]]
    ELSE IF c = DQ /\ ~p.singleQuote
    THEN [i |-> i + 1, p |-> [p EXCEPT !.doubleQuote = ~@]]
    ELSE IF ~quoted(p) /\ c = GT
    THEN [i |-> i + 1, p |-> [flushToken(p) EXCEPT !.current.args = Append(@, <<GT>>)]]
    ELSE IF ~quoted(p) /\ i < Len(input) /\ c = AMP /\ input[i + 1] = AMP
    THEN [i |-> i + 2, p |-> pushCommand(p)]
    ELSE IF c = SP /\ ~quoted(p)
    THEN [i |-> i + 1, p |-> flushToken(p)]
    ELSE [i |-> i + 1, p |-> [p EXCEPT !.current_token = @ \o WriteRune(c)]]

\* the scan loop of parseCommand from the iteration state r on
RECURSIVE scan(_, _)
scan(input, r) == IF r.i > Len(input) THEN r.p ELSE scan(input, scanStep(input, r.i, r.p))

\* a linking loop that stops one command early: the last two are not linked
linkShort(st) == [i \in 1..Len(st) |-> [st[i] EXCEPT !.nextCommand = IF i < Len(st) - 1 THEN i + 1 ELSE 0]]

\* a linking loop that links every command to the one after its successor
linkSkip(st) == [i \in 1..Len(st) |-> [st[i] EXCEPT !.nextCommand = IF i + 2 <= Len(st) THEN i + 2 ELSE 0]]

\* the linking loop: every command but the last points to its successor
link(st) == [i \in 1..Len(st) |-> [st[i] EXCEPT !.nextCommand = IF i < Len(st) THEN i + 1 ELSE 0]]

parseCommand(input) == link(pushCommand(scan(input, [i |-> 1, p |-> ParserInit])).stack)

----------------------------------------------------------------------------
(* The environment the shell starts in *)

\* exitCode while the process lives; <<c>> once os.Exit(c) was called
NoExit == <<>>

\* os.Stdout as a writer, and the null device a nil exec.Cmd stream is connected to
OsStdout == <<"os.Stdout">>
DevNull == <<"os.DevNull">>

\* runtime.GOOS of the build
GOOS == "linux"

\* $HOME and the directories of $PATH, in order
Home == <<"/", "h">>
PathDirs == << <<"/", "b">>, <<"/", "u">> >>

\* the program found on the search path
LsPath == <<"/", "b", "/", "l", "s">>

\* a regular file without execute permission in a directory of the search path
NPath == <<"/", "u", "/", "n">>

InitFiles == (LsPath :> <<"<elf>">>) @@ (NPath :> <<"<data>">>)

\* the files whose mode has an execute bit: os.Create makes files of mode 0666
\* and the shell never changes a mode, so the set is fixed
ExecFiles == {LsPath}

InitDirs == {<<"/">>, <<"/", "b">>, <<"/", "u">>, <<"/", "h">>}

\* what a child process writes to its standard output when it runs
ChildOut == <<"<child stdout>">>

----------------------------------------------------------------------------
(* Paths *)

\* index of the last "/" of p, 0 if none
LastSlash(p) == IF \E i \in 1..Len(p) : p[i] = "/"
                THEN CHOOSE i \in 1..Len(p) : p[i] = "/" /\ \A j \in (i + 1)..Len(p) : p[j] # "/"
                ELSE 0

\* filepath.Dir of a clean path
Dir(p) == LET k == LastSlash(p) IN
          IF k = 0 THEN <<".">> ELSE IF k = 1 THEN <<"/">> ELSE SubSeq(p, 1, k - 1)

\* filepath.Join of a directory and a name
PathJoin(d, n) == IF n = <<>> THEN d ELSE IF d = <<"/">> THEN d \o n ELSE d \o <<"/">> \o n

\* the absolute path the kernel resolves p to in working directory wd
Abs(p, wd) == IF p = <<".">> \/ p = <<>> THEN wd
              ELSE IF p[1] = "/" THEN p ELSE PathJoin(wd, p)

\* an absolute directory and all its ancestors
Ancestors(d) == {<<"/">>, d} \cup {SubSeq(d, 1, k - 1) : k \in {i \in 2..Len(d) : d[i] = "/"}}

\* os.Stat(p) succeeds
Stat(p, files, ds, wd) == Abs(p, wd) \in DOMAIN files \/ Abs(p, wd) \in ds

\* strings.Replace(path, old, new, 1)
ReplaceFirst(path, old, new) ==
    IF \E i \in 1..Len(path) : path[i] = old
    THEN LET k == CHOOSE i \in 1..Len(path) : path[i] = old /\ \A j \in 1..(i - 1) : path[j] # old
         IN SubSeq(path, 1, k - 1) \o new \o SubSeq(path, k + 1, Len(path))
    ELSE path

\* Shell.replacePath with aliases = {"~": $HOME}
replacePath(path) == ReplaceFirst(path, "~", Home)

\* find: the first directory of $PATH holding exe
RECURSIVE findFrom(_, _, _, _, _)
findFrom(i, exe, files, ds, wd) ==
    IF i > Len(PathDirs) THEN [fp |-> <<"NOENT">>, exists |-> FALSE]
    ELSE IF Stat(PathJoin(PathDirs[i], exe), files, ds, wd)
         THEN [fp |-> PathJoin(PathDirs[i], exe), exists |-> TRUE]
         ELSE findFrom(i + 1, exe, files, ds, wd)

find(exe, files, ds, wd) == findFrom(1, exe, files, ds, wd)

----------------------------------------------------------------------------
(* The builtin table: Shell.initCommands *)

W_exit == <<"e", "x", "i", "t">>
W_echo == <<"e", "c", "h", "o">>
W_type == <<"t", "y", "p", "e">>
W_pwd == <<"p", "w", "d">>
W_cd == <<"c", "d">>
W_cls == <<"c", "l", "s">>
W_clear == <<"c", "l", "e", "a", "r">>

\* s.commands: name -> handler
commands ==
    (W_exit :> "exit") @@ (W_echo :> "echo") @@ (W_type :> "_type") @@ (W_pwd :> "pwd")
    @@ (W_cd :> "cd") @@ (W_cls :> "clear") @@ (W_clear :> "clear")

\* an executeCommand without the search of $PATH
dispatchNoFind(op, files, ds, wd) == IF op \in DOMAIN commands THEN commands[op] ELSE "notfound"

\* the branch executeCommand takes for an operation name
dispatch(op, files, ds, wd) ==
    IF op \in DOMAIN commands THEN commands[op]
    ELSE IF find(op, files, ds, wd).exists THEN "external"
    ELSE "notfound"

----------------------------------------------------------------------------
(* strconv.Atoi on the short tokens of the model (no overflow) *)

Digits == {"0", "1", "2", "3", "4", "5", "6", "7", "8", "9"}

DigitVal(c) == CHOOSE v \in 0..9 : ToString(v) = c

RECURSIVE DigitsVal(_)
DigitsVal(s) == IF s = <<>> THEN 0 ELSE 10 * DigitsVal(SubSeq(s, 1, Len(s) - 1)) + DigitVal(s[Len(s)])

AtoiBody(s) == IF s # <<>> /\ s[1] \in {"+", "-"} THEN Tail(s) ELSE s

\* Atoi returns no error
AtoiOk(s) == AtoiBody(s) # <<>> /\ \A i \in 1..Len(AtoiBody(s)) : AtoiBody(s)[i] \in Digits

AtoiVal(s) == IF s[1] = "-" THEN 0 - DigitsVal(AtoiBody(s)) ELSE DigitsVal(AtoiBody(s))

----------------------------------------------------------------------------
(* The redirection resolver: Shell.pipe *)

IsRedirect(a) == HasPrefix(a, <<GT>>) \/ HasPrefix(a, <<"1", GT>>)

\* a loop that honours the last redirection operator instead of the first
RedirectIndexLast(args) ==
    IF \E i \in 1..(Len(args) - 1) : IsRedirect(args[i])
    THEN CHOOSE i \in 1..(Len(args) - 1) :
            IsRedirect(args[i]) /\ \A j \in (i + 1)..(Len(args) - 1) : ~IsRedirect(args[j])
    ELSE 0

\* the index the loop of pipe stops at: the first redirection operator that is
\* not the last argument (0: none)
RedirectIndex(args) ==
    IF \E i \in 1..(Len(args) - 1) : IsRedirect(args[i])
    THEN CHOOSE i \in 1..(Len(args) - 1) :
            IsRedirect(args[i]) /\ \A j \in 1..(i - 1) : ~IsRedirect(args[j])
    ELSE 0

\* a rewrite that drops the operator and keeps its target
RemoveOne(args, i) == SubSeq(args, 1, i - 1) \o SubSeq(args, i + 1, Len(args))

\* append((*args)[:i], (*args)[i+2:]...)
RemoveTwo(args, i) == SubSeq(args, 1, i - 1) \o SubSeq(args, i + 2, Len(args))

\* pipe(&args) in file system (files, ds) and working directory wd, the system
\* answering io: "ok", "mkdir" (MkdirAll of a missing directory fails) or
\* "create" (Create fails). Yields the writer, the error, the rewritten
\* arguments and the file system it leaves.
pipe(args, io, files, ds, wd) ==
    LET i == RedirectIndex(args) IN
    IF i = 0
    THEN [writer |-> OsStdout, err |-> <<>>, args |-> args, fs |-> files, dirs |-> ds]
    ELSE LET fi == TrimSpace(args[i + 1])
             dir == Abs(Dir(fi), wd)
             target == Abs(fi, wd)
             mkdirFails == \/ io = "mkdir" /\ dir \notin ds
                           \/ \E a \in Ancestors(dir) : a \in DOMAIN files
             ds2 == ds \cup Ancestors(dir)
             createFails == io = "create" \/ fi = <<>> \/ target \in ds2
         IN
         IF mkdirFails
         THEN [writer |-> <<>>, err |-> <<"Error creating directory: ", "<errno>">>,
               args |-> args, fs |-> files, dirs |-> ds]
         ELSE IF createFails
         THEN [writer |-> <<>>, err |-> <<"Error creating output file: ", "<errno>">>,
               args |-> args, fs |-> files, dirs |-> ds2]
         ELSE [writer |-> target, err |-> <<>>, args |-> RemoveTwo(args, i),
               fs |-> (target :> <<>>) @@ files, dirs |-> ds2]

IOAnswers == {"ok", "mkdir", "create"}

----------------------------------------------------------------------------
(* The builtin handlers and executeExternal, as functions of their inputs *)

Nil == <<>>

\* an exit that reports the conversion error and exits all the same
exitAnyway(args) ==
    IF Len(args) > 1
    THEN [err |-> <<"Error: Expected [0:1] argument, received ", ToString(Len(args))>>, exits |-> FALSE, code |-> 0]
    ELSE IF Len(args) = 0
    THEN [err |-> Nil, exits |-> TRUE, code |-> 0]
    ELSE IF ~AtoiOk(args[1])
    THEN [err |-> Nil, exits |-> TRUE, code |-> 0]
    ELSE [err |-> Nil, exits |-> TRUE, code |-> AtoiVal(args[1])]

\* Shell.exit: the error returned, or the code handed to os.Exit
exit(args) ==
    IF Len(args) > 1
    THEN [err |-> <<"Error: Expected [0:1] argument, received ", ToString(Len(args))>>, exits |-> FALSE, code |-> 0]
    ELSE IF Len(args) = 0
    THEN [err |-> Nil, exits |-> TRUE, code |-> 0]
    ELSE IF ~AtoiOk(args[1])
    THEN [err |-> <<"strconv.Atoi: parsing ">> \o args[1] \o <<": invalid syntax">>, exits |-> FALSE, code |-> 0]
    ELSE [err |-> Nil, exits |-> TRUE, code |-> AtoiVal(args[1])]

\* an echo that prints its arguments to the terminal when the resolver failed
echoWritesOnError(args, io, files, ds, wd) ==
    LET r == pipe(args, io, files, ds, wd) IN
    IF r.err # Nil
    THEN [err |-> r.err, writer |-> OsStdout, text |-> Join(r.args) \o <<NL>>,
          args |-> r.args, fs |-> r.fs, dirs |-> r.dirs]
    ELSE [err |-> Nil, writer |-> r.writer, text |-> Join(r.args) \o <<NL>>,
          args |-> r.args, fs |-> r.fs, dirs |-> r.dirs]

\* Shell.echo up to the continuation: the resolver's result and the line written
echo(args, io, files, ds, wd) ==
    LET r == pipe(args, io, files, ds, wd) IN
    IF r.err # Nil
    THEN [err |-> r.err, writer |-> Nil, text |-> <<>>, args |-> r.args, fs |-> r.fs, dirs |-> r.dirs]
    ELSE [err |-> Nil, writer |-> r.writer, text |-> Join(r.args) \o <<NL>>,
          args |-> r.args, fs |-> r.fs, dirs |-> r.dirs]

\* Shell._type up to the continuation
_type(args, files, ds, wd) ==
    IF Len(args) # 1
    THEN [err |-> <<"Error: Expected 1 argument, received ", ToString(Len(args))>>, text |-> <<>>]
    ELSE IF args[1] \in DOMAIN commands
    THEN [err |-> Nil, text |-> args[1] \o <<" is a shell builtin", NL>>]
    ELSE IF find(args[1], files, ds, wd).exists
    THEN [err |-> Nil, text |-> args[1] \o <<" is ">> \o find(args[1], files, ds, wd).fp \o <<NL>>]
    ELSE [err |-> Nil, text |-> args[1] \o <<": not found", NL>>]

\* Shell.pwd up to the continuation (os.Getwd of an existing directory)
pwd(wd) == [err |-> Nil, text |-> wd \o <<NL>>]

\* Shell.clear up to the continuation: the error of the clear program is dropped
clear(os) ==
    IF os \in {"linux", "windows"}
    THEN [err |-> Nil, text |-> <<"<clear screen>">>]
    ELSE [err |-> <<"Error: Unsupported OS">>, text |-> <<>>]

\* Shell.cd up to the continuation
cd(args, ds, wd) ==
    IF Len(args) = 0
    THEN [err |-> <<"Error: No directory specified">>, cwd |-> wd]
    ELSE IF Abs(replacePath(args[1]), wd) \in ds
    THEN [err |-> Nil, cwd |-> Abs(replacePath(args[1]), wd)]
    ELSE [err |-> <<"cd: ">> \o args[1] \o <<": No such file or directory">>, cwd |-> wd]

RunAnswers == {"ok", "exit1", "nostart"}

\* exec.LookPath, which exec.Command runs for a name without a slash: some
\* directory of $PATH holds an executable regular file exe
LookPath(exe, files) ==
    \E i \in 1..Len(PathDirs) : PathJoin(PathDirs[i], exe) \in (DOMAIN files) \cap ExecFiles

\* Shell.executeExternal up to the continuation. exec.Command copies cmd.args
\* into the child's argument vector before pipe rewrites cmd.args; the child's
\* Stdout is the writer and its Stderr is left nil. run is what ext.Run meets:
\* "ok" (exit 0), "exit1" (ran, nonzero exit) or "nostart".
executeExternal(cmd, io, run, files, ds, wd) ==
    LET argv == <<cmd.op>> \o cmd.args
        r == pipe(cmd.args, io, files, ds, wd)
        ran == IF LookPath(cmd.op, files) THEN run ELSE "nostart"
    IN
    IF r.err # Nil
    THEN [err |-> r.err, spawned |-> FALSE, argv |-> argv, writer |-> Nil, childErr |-> Nil,
          text |-> <<>>, args |-> r.args, fs |-> r.fs, dirs |-> r.dirs]
    ELSE [err |-> IF ran = "ok" THEN Nil ELSE cmd.op \o <<": ", "<exec error>">>,
          spawned |-> ran # "nostart", argv |-> argv, writer |-> r.writer, childErr |-> DevNull,
          text |-> IF ran = "nostart" THEN <<>> ELSE ChildOut,
          args |-> r.args, fs |-> r.fs, dirs |-> r.dirs]

\* a handler that invokes its continuation whatever it returned
continueAfterError(cmd, err) == cmd.nextCommand

\* the continuation a handler invokes: the index of the next command to
\* execute after a handler that returned err (0: return to the caller)
continueTo(cmd, err) == IF err = Nil THEN cmd.nextCommand ELSE 0

\* fmt.Fprintln / a child's write on writer w
WriteFiles(files, w, text) == IF w = OsStdout \/ w = Nil THEN files ELSE [files EXCEPT ![w] = @ \o text]
WriteTerm(out, w, text) == IF w = OsStdout THEN out \o text ELSE out

\* the files left open by an invocation that holds a deferred Close on w
Opened(op, w) == IF w = OsStdout \/ w = Nil THEN op ELSE Append(op, w)

----------------------------------------------------------------------------
(* The lines typed at the prompt *)

W_ls == <<"l", "s">>
W_zz == <<"z", "z">>
W_n == <<"n">>
Target == <<"/", "d", "/", "f">>
DirD == <<"/", "d">>

\* the commands typed alone
CmdForms ==
    { Join(<<W_echo, <<"a">>>>),
      Join(<<W_echo, <<"a">>, <<"b">>>>),
      Join(<<W_echo, <<"a">>, <<GT>>, Target>>),
      Join(<<W_echo, <<"a">>, <<GT>>, Target, <<"b">>>>),
      Join(<<W_echo, <<"a">>, <<"1", GT>>, Target>>),
      Join(<<W_echo, <<GT>>>>),
      Join(<<W_type, W_echo>>),
      Join(<<W_type, W_ls>>),
      Join(<<W_type, W_zz>>),
      Join(<<W_type, W_echo, <<GT>>, Target>>),
      Join(<<W_type, W_n>>),
      Join(<<W_echo, <<"a">>, <<"2", GT>>, Target>>),
      Join(<<W_echo, <<SQ, "a">>>>),
      Join(<<W_echo, <<"a">>, <<SQ, GT, "x", SQ>>, Target>>),
      Join(<<W_echo, <<"a">>, <<GT>>, Target, <<GT>>, <<"b">>>>),
      W_n,
      Join(<<W_echo, <<"a", BS>>>>),
      W_exit,
      Join(<<W_exit, <<"3">>>>),
      Join(<<W_exit, <<"-", "1">>>>),
      Join(<<W_exit, <<"x">>>>),
      Join(<<W_exit, <<"1">>, <<"2">>>>),
      W_ls,
      Join(<<W_ls, <<"a">>, <<GT>>, Target>>),
      W_zz,
      W_cd,
      Join(<<W_cd, DirD>>),
      Join(<<W_cd, <<"~">>>>),
      W_pwd,
      W_cls,
      W_clear,
      <<AMP, AMP>>,
      <<SP>> }

\* the commands typed in && chains
ChainCmds ==
    { Join(<<W_echo, <<"a">>>>),
      Join(<<W_echo, <<"a">>, <<GT>>, Target>>),
      W_ls,
      W_zz,
      W_exit,
      Join(<<W_exit, <<"1">>, <<"2">>>>) }

RECURSIVE JoinAnd(_)
JoinAnd(cs) == IF Len(cs) = 1 THEN cs[1] ELSE cs[1] \o <<SP, AMP, AMP, SP>> \o JoinAnd(Tail(cs))

ChainLines == {JoinAnd(cs) : cs \in UNION {[1..n -> ChainCmds] : n \in 2..MaxChain}}

Lines == CmdForms \cup ChainLines

----------------------------------------------------------------------------
(* Shell.Run *)

Init ==
    /\ pc = "prompt"
    /\ line = <<>>
    /\ stack = <<>>
    /\ cur = 0
    /\ trace = <<>>
    /\ stdout = <<>>
    /\ stderr = <<>>
    /\ fs = InitFiles
    /\ dirs = InitDirs
    /\ cwd = <<"/">>
    /\ open = <<>>
    /\ ret = Nil
    /\ exitCode = NoExit

\* one record of trace
Event(k, handler, args, argv, out, errto, err, made) ==
    [idx |-> k, handler |-> handler, op |-> stack[k].op, args |-> args, argv |-> argv,
     out |-> out, errto |-> errto, err |-> err, made |-> made]

\* after the handler of stack[cur] returned err: the continuation, or the return to Run
Advance(err) ==
    IF continueTo(stack[cur], err) # 0
    THEN pc' = "exec" /\ cur' = continueTo(stack[cur], err) /\ ret' = Nil
    ELSE pc' = "ret" /\ cur' = cur /\ ret' = err

Handler == dispatch(stack[cur].op, fs, dirs, cwd)

\* a Run that takes s.stack[0] without looking at the length of the stack
stackHeadUnguarded(st) == 1

\* the command Run hands to executeCommand after a parse: s.stack[0] behind
\* the guard len(s.stack) > 0 (0: none)
stackHead(st) == IF Len(st) > 0 THEN 1 ELSE 0

\* case 13 of Run: the line is trimmed and parsed, and its head is handed to
\* executeCommand; an index beyond the stack is a run-time panic
Enter(l) ==
    /\ pc = "prompt"
    /\ line' = l
    /\ stack' = IF TrimSpace(l) # <<>> THEN parseCommand(TrimSpace(l)) ELSE <<>>
    /\ IF TrimSpace(l) = <<>> \/ stackHead(stack') = 0
       THEN pc' = "done" /\ cur' = 0
       ELSE IF stackHead(stack') > Len(stack')
       THEN pc' = "panic" /\ cur' = 0
       ELSE pc' = "exec" /\ cur' = stackHead(stack')
    /\ UNCHANGED <<trace, stdout, stderr, fs, dirs, cwd, open, ret, exitCode>>

\* case 4 of Run: Ctrl+D on an empty input buffer
CtrlD ==
    /\ pc = "prompt"
    /\ stdout' = stdout \o <<"exit", NL>>
    /\ pc' = "exited"
    /\ exitCode' = <<0>>
    /\ UNCHANGED <<line, stack, cur, trace, stderr, fs, dirs, cwd, open, ret>>

ExecExit ==
    /\ pc = "exec" /\ Handler = "exit"
    /\ LET r == exit(stack[cur].args) IN
       /\ trace' = Append(trace, Event(cur, "exit", stack[cur].args, <<>>, Nil, Nil, r.err, {}))
       /\ IF r.exits
          THEN pc' = "exited" /\ exitCode' = <<r.code>> /\ UNCHANGED <<cur, ret>>
          ELSE Advance(r.err) /\ UNCHANGED exitCode
    /\ UNCHANGED <<line, stack, stdout, stderr, fs, dirs, cwd, open>>

ExecEcho ==
    /\ pc = "exec" /\ Handler = "echo"
    /\ \E io \in IOAnswers :
         LET r == echo(stack[cur].args, io, fs, dirs, cwd) IN
         /\ trace' = Append(trace, Event(cur, "echo", r.args, <<>>, r.writer, Nil, r.err, r.dirs \ dirs))
         /\ fs' = WriteFiles(r.fs, r.writer, r.text)
         /\ stdout' = WriteTerm(stdout, r.writer, r.text)
         /\ dirs' = r.dirs
         /\ open' = Opened(open, r.writer)
         /\ Advance(r.err)
    /\ UNCHANGED <<line, stack, stderr, cwd, exitCode>>

ExecType ==
    /\ pc = "exec" /\ Handler = "_type"
    /\ LET r == _type(stack[cur].args, fs, dirs, cwd) IN
       /\ trace' = Append(trace, Event(cur, "_type", stack[cur].args, <<>>, OsStdout, Nil, r.err, {}))
       /\ stdout' = stdout \o r.text
       /\ Advance(r.err)
    /\ UNCHANGED <<line, stack, stderr, fs, dirs, cwd, open, exitCode>>

ExecPwd ==
    /\ pc = "exec" /\ Handler = "pwd"
    /\ LET r == pwd(cwd) IN
       /\ trace' = Append(trace, Event(cur, "pwd", stack[cur].args, <<>>, OsStdout, Nil, r.err, {}))
       /\ stdout' = stdout \o r.text
       /\ Advance(r.err)
    /\ UNCHANGED <<line, stack, stderr, fs, dirs, cwd, open, exitCode>>

ExecClear ==
    /\ pc = "exec" /\ Handler = "clear"
    /\ LET r == clear(GOOS) IN
       /\ trace' = Append(trace, Event(cur, "clear", stack[cur].args, <<>>, OsStdout, Nil, r.err, {}))
       /\ stdout' = stdout \o r.text
       /\ Advance(r.err)
    /\ UNCHANGED <<line, stack, stderr, fs, dirs, cwd, open, exitCode>>

ExecCd ==
    /\ pc = "exec" /\ Handler = "cd"
    /\ LET r == cd(stack[cur].args, dirs, cwd) IN
       /\ trace' = Append(trace, Event(cur, "cd", stack[cur].args, <<>>, Nil, Nil, r.err, {}))
       /\ cwd' = r.cwd
       /\ Advance(r.err)
    /\ UNCHANGED <<line, stack, stdout, stderr, fs, dirs, open, exitCode>>

ExecExternal ==
    /\ pc = "exec" /\ Handler = "external"
    /\ \E io \in IOAnswers, run \in RunAnswers :
         LET r == executeExternal(stack[cur], io, run, fs, dirs, cwd) IN
         /\ trace' = Append(trace, Event(cur, IF r.spawned THEN "external" ELSE "nospawn",
                                         r.args, r.argv, r.writer, r.childErr, r.err, r.dirs \ dirs))
         /\ fs' = WriteFiles(r.fs, r.writer, r.text)
         /\ stdout' = WriteTerm(stdout, r.writer, r.text)
         /\ dirs' = r.dirs
         /\ open' = Opened(open, r.writer)
         /\ Advance(r.err)
    /\ UNCHANGED <<line, stack, stderr, cwd, exitCode>>

\* the last branch of executeCommand: the message is printed with fmt.Printf
ExecNotFound ==
    /\ pc = "exec" /\ Handler = "notfound"
    /\ trace' = Append(trace, Event(cur, "notfound", stack[cur].args, <<>>, Nil, Nil,
                                    stack[cur].op \o <<": command not found", NL>>, {}))
    /\ stdout' = stdout \o stack[cur].op \o <<": command not found", NL>>
    /\ Advance(stack[cur].op \o <<": command not found", NL>>)
    /\ UNCHANGED <<line, stack, stderr, fs, dirs, cwd, open, exitCode>>

\* a Run that leaves the executed chain in s.stack
StaleCommands == stack

\* []Command{}
NoCommands == <<>>

\* executeCommand(s.stack[0]) returns to Run: the deferred Closes have run, the
\* returned error is dropped and the stack is cleared
Return ==
    /\ pc = "ret"
    /\ open' = <<>>
    /\ stack' = NoCommands
    /\ cur' = 0
    /\ pc' = "done"
    /\ UNCHANGED <<line, trace, stdout, stderr, fs, dirs, cwd, ret, exitCode>>

\* the head of the loop of Run: the prompt is printed and a new line is awaited
Prompt ==
    /\ pc = "done"
    /\ pc' = "prompt"
    /\ line' = <<>>
    /\ trace' = <<>>
    /\ stdout' = <<>>
    /\ stderr' = <<>>
    /\ ret' = Nil
    /\ UNCHANGED <<stack, cur, fs, dirs, cwd, open, exitCode>>

Next ==
    \/ \E l \in Lines : Enter(l)
    \/ CtrlD
    \/ ExecExit
    \/ ExecEcho
    \/ ExecType
    \/ ExecPwd
    \/ ExecClear
    \/ ExecCd
    \/ ExecExternal
    \/ ExecNotFound
    \/ Return
    \/ Prompt

Spec == Init /\ [][Next]_vars

\* the steps of executeCommand and its return to Run: handlers run
\* synchronously in the one goroutine of the shell
Execute ==
    \/ ExecExit
    \/ ExecEcho
    \/ ExecType
    \/ ExecPwd
    \/ ExecClear
    \/ ExecCd
    \/ ExecExternal
    \/ ExecNotFound
    \/ Return

\* the chains typed when the end of every execution is checked (none with a
\* redirection: the resolver is not involved in the order of execution)
LiveLines ==
    { JoinAnd(<<Join(<<W_echo, <<"a">>>>), W_ls, Join(<<W_echo, <<"b">>>>)>>),
      JoinAnd(<<W_ls, W_zz, Join(<<W_echo, <<"a">>>>)>>),
      JoinAnd(<<Join(<<W_echo, <<"a">>>>), W_exit>>),
      JoinAnd(<<Join(<<W_type, W_ls>>), W_pwd, Join(<<W_cd, DirD>>)>>),
      JoinAnd(<<W_cls, W_cd, W_pwd>>),
      JoinAnd(<<Join(<<W_cd, <<"~">>>>), W_pwd, W_ls>>),
      JoinAnd(<<Join(<<W_cd, <<"/", "b">>>>), Join(<<W_type, W_zz>>), W_n>>),
      JoinAnd(<<Join(<<W_cd, <<"/", "u">>>>), Join(<<W_echo, <<"a">>>>), W_zz>>),
      JoinAnd(<<Join(<<W_cd, <<"/">>>>), W_ls, W_ls>>),
      JoinAnd(<<Join(<<W_exit, <<"1">>, <<"2">>>>), Join(<<W_echo, <<"a">>>>)>>),
      <<AMP, AMP>> }

NextLive ==
    \/ \E l \in LiveLines : Enter(l)
    \/ CtrlD
    \/ Execute
    \/ Prompt

\* Run whose handlers, once called, return (every child process terminates)
SpecLive == Init /\ [][NextLive]_vars /\ WF_vars(Execute)

----------------------------------------------------------------------------
(* The parser applied to every short line *)

Alphabet == {"a", "1", SP, SQ, DQ, BS, GT, AMP, HiByte}

RawLines == UNION {[1..n -> Alphabet] : n \in 0..MaxLen}

\* longer lines handed to the parser
ParseExamples ==
    { <<"e", "c", "h", "o", SP, SQ, "a", SP, "b", SQ, SP, "c">>,
      <<"e", "c", "h", "o", SP, DQ, "a", SP, SQ, "b", SQ, DQ, "x">>,
      <<"e", "c", "h", "o", SP, "a", BS, SP, "b">>,
      <<"e", "c", "h", "o", SP, DQ, "a", BS, DQ, "b", DQ>>,
      <<"a", SP, AMP, AMP, SP, "b", SP, AMP, AMP, SP, "c">>,
      <<"e", "c", "h", "o", SP, SQ, "a", SP, AMP, AMP, SP, "b", SQ, SP, AMP, AMP, SP, "c">> }

InitParse ==
    /\ pc = "read"
    /\ line \in RawLines \cup ParseExamples
    /\ stack = <<>>
    /\ cur = 0
    /\ trace = <<>>
    /\ stdout = <<>>
    /\ stderr = <<>>
    /\ fs = InitFiles
    /\ dirs = InitDirs
    /\ cwd = <<"/">>
    /\ open = <<>>
    /\ ret = <<>>
    /\ exitCode = NoExit

ApplyParse ==
    /\ pc = "read"
    /\ stack' = parseCommand(line)
    /\ pc' = "parsed"
    /\ UNCHANGED <<line, cur, trace, stdout, stderr, fs, dirs, cwd, open, ret, exitCode>>

NextParse == ApplyParse

SpecParse == InitParse /\ [][NextParse]_vars

----------------------------------------------------------------------------
(* parseCommand invoked repeatedly on one Shell *)

\* the lines of the repeated parses
ReparseLines ==
    { <<"a">>,
      <<"a", SP, "a">>,
      <<"a", AMP, AMP, "a">>,
      <<"a", SP, AMP, AMP, SP, "a", SP, "a">>,
      <<"a", SP, "a", SP, AMP, AMP, SP, "a">>,
      <<AMP, AMP>>,
      <<"a", AMP, AMP>>,
      <<AMP, AMP, "a">>,
      <<"a", SP, AMP, AMP, SP, "a", SP, AMP, AMP, SP, "a">>,
      <<SQ, "a", SQ>>,
      <<SQ, "a", AMP, AMP, "a", SQ>>,
      <<"a", BS, SP, "a">> }

\* the invocations of parseCommand in one run
Rounds == {"first", "second", "third"}

InitReparse ==
    /\ pc = "read"
    /\ line \in ReparseLines
    /\ stack = <<>>
    /\ cur = 0
    /\ trace = <<>>
    /\ stdout = <<>>
    /\ stderr = <<>>
    /\ fs = InitFiles
    /\ dirs = InitDirs
    /\ cwd = <<"/">>
    /\ open = <<>>
    /\ ret = <<>>
    /\ exitCode = NoExit

\* s.parseCommand(line): s.stack is what the call leaves; the line and the
\* chain are recorded in trace
Reparse ==
    /\ pc = "read"
    /\ stack' = parseCommand(line)
    /\ trace' = Append(trace, [line |-> line, chain |-> stack'])
    /\ pc' = "parsed"
    /\ UNCHANGED <<line, cur, stdout, stderr, fs, dirs, cwd, open, ret, exitCode>>

\* another line is handed to the same Shell, whose s.stack still holds the
\* previous chain
ReadAgain(l) ==
    /\ pc = "parsed"
    /\ Len(trace) < Cardinality(Rounds)
    /\ line' = l
    /\ pc' = "read"
    /\ UNCHANGED <<stack, cur, trace, stdout, stderr, fs, dirs, cwd, open, ret, exitCode>>

NextReparse ==
    \/ Reparse
    \/ \E l \in ReparseLines : ReadAgain(l)

SpecReparse == InitReparse /\ [][NextReparse]_vars

----------------------------------------------------------------------------
(* The resolver applied to every short argument list *)

\* the arguments: a word, the operators, a path with a directory to make, and
\* a word that starts with >
ArgWords == {<<"a">>, <<GT>>, <<"1", GT>>, Target, <<GT, "x">>}

ArgLists == UNION {[1..n -> ArgWords] : n \in 0..MaxArgs}

InitPipe ==
    /\ pc = "args"
    /\ line = <<>>
    /\ stack \in {<<[op |-> W_echo, args |-> a, nextCommand |-> 0]>> : a \in ArgLists}
    /\ cur = 1
    /\ trace = <<>>
    /\ stdout = <<>>
    /\ stderr = <<>>
    /\ fs = InitFiles
    /\ dirs = InitDirs
    /\ cwd = <<"/">>
    /\ open = <<>>
    /\ ret = <<>>
    /\ exitCode = NoExit

\* s.pipe(&args): what it returns and leaves in args is recorded in trace
ApplyPipe ==
    /\ pc = "args"
    /\ \E io \in IOAnswers :
         LET r == pipe(stack[1].args, io, fs, dirs, cwd) IN
         /\ trace' = <<[args |-> r.args, out |-> r.writer, err |-> r.err]>>
         /\ fs' = r.fs
         /\ dirs' = r.dirs
         /\ open' = Opened(open, r.writer)
    /\ pc' = "piped"
    /\ UNCHANGED <<line, stack, cur, stdout, stderr, cwd, ret, exitCode>>

NextPipe == ApplyPipe

SpecPipe == InitPipe /\ [][NextPipe]_vars

----------------------------------------------------------------------------
(* Helpers of the properties *)

\* the maximal runs of non-space bytes of s, in order
RECURSIVE FieldsFrom(_, _, _)
FieldsFrom(s, i, tok) ==
    IF i > Len(s) THEN (IF tok = <<>> THEN <<>> ELSE <<tok>>)
    ELSE IF s[i] = SP
         THEN (IF tok = <<>> THEN <<>> ELSE <<tok>>) \o FieldsFrom(s, i + 1, <<>>)
         ELSE FieldsFrom(s, i + 1, Append(tok, s[i]))

Fields(s) == FieldsFrom(s, 1, <<>>)

Has(s, c) == \E i \in 1..Len(s) : s[i] = c

HasAmpAmp(s) == \E i \in 1..(Len(s) - 1) : s[i] = AMP /\ s[i + 1] = AMP

\* the chain the claim expects: one command, operation the first field, arguments the rest
OneCommand(s) == <<[op |-> Fields(s)[1], args |-> Tail(Fields(s)), nextCommand |-> 0]>>

IsSuffix(t, s) == Len(t) <= Len(s) /\ SubSeq(s, Len(s) - Len(t) + 1, Len(s)) = t

NotFoundMsg(op) == op \o <<": command not found", NL>>

Builtins == {"exit", "echo", "_type", "pwd", "cd", "clear"}

\* short argument lists without any special byte
PlainArgLists == UNION {[1..n -> {<<"a">>, <<"b">>}] : n \in 0..2}

\* the line "echo <pre> <operator> /d/f <post>"
EchoRedirect(pre, operator, post) == Join(<<W_echo>> \o pre \o <<operator, Target>> \o post)

----------------------------------------------------------------------------
(* C1, C2 *)

\* C1: once the command at position k of the chain has failed (not found,
\* external process not run or nonzero, builtin error), no command at a
\* position after k is executed for that line.
C1_ShortCircuit ==
    \A i \in 1..Len(trace) :
        trace[i].err # Nil => \A j \in 1..Len(trace) : trace[j].idx <= trace[i].idx

\* the second command of a three-command chain failed after the first ran,
\* and executeCommand is returning
C1_Witness ==
    /\ pc = "ret"
    /\ Len(stack) = 3
    /\ Len(trace) = 2
    /\ trace[1].idx = 1 /\ trace[1].err = Nil
    /\ trace[2].idx = 2 /\ trace[2].err # Nil

\* C2: while every command run so far succeeded (and none exited the shell),
\* the commands run are exactly the first ones of the chain, each once and in
\* order, the next one starting after the previous handler is done; when
\* executeCommand returns without error all n commands have run, and Run
\* then goes back to the prompt.
C2_InOrder ==
    (\A i \in 1..Len(trace) : trace[i].err = Nil) =>
        /\ \A i \in 1..Len(trace) : trace[i].idx = i
        /\ pc = "exec" => cur = Len(trace) + 1 /\ cur <= Len(stack)
        /\ (pc = "ret" /\ ret = Nil) => Len(trace) = Len(stack)
        /\ pc = "ret" => ENABLED Return
        /\ pc = "done" => ENABLED Prompt

\* a chain of three commands has run to its end without error
C2_Witness ==
    /\ pc = "ret"
    /\ ret = Nil
    /\ Len(stack) = 3
    /\ Len(trace) = 3
    /\ \E i \in 1..3 : trace[i].handler = "external"
    /\ \E i \in 1..3 : trace[i].handler = "echo"

----------------------------------------------------------------------------
(* C3 *)

\* C3 (as stated): for every line without quote characters and without &&
\* (backslashes and > allowed), parseCommand yields exactly one command whose
\* operation is the first space-delimited token and whose arguments are the
\* remaining tokens, unchanged and in order.
C3_AsStated ==
    (pc = "parsed" /\ ~Has(line, SQ) /\ ~Has(line, DQ) /\ ~HasAmpAmp(line) /\ Fields(line) # <<>>)
        => stack = OneCommand(line)

\* C3 (amended): the same for every line of printable ASCII bytes that holds
\* no quote character, no backslash, no > and no &&.
C3_PlainLine ==
    (pc = "parsed" /\ ~Has(line, SQ) /\ ~Has(line, DQ) /\ ~HasAmpAmp(line) /\ Fields(line) # <<>>
        /\ ~Has(line, BS) /\ ~Has(line, GT) /\ ~Has(line, HiByte))
        => stack = OneCommand(line)

\* a plain line with an operation and an argument, e.g. "a 1&", has been parsed
C3_Witness ==
    /\ pc = "parsed"
    /\ ~Has(line, SQ) /\ ~Has(line, DQ) /\ ~HasAmpAmp(line)
    /\ ~Has(line, BS) /\ ~Has(line, GT) /\ ~Has(line, HiByte)
    /\ Has(line, AMP)
    /\ Len(Fields(line)) >= 2

----------------------------------------------------------------------------
(* C4 .. C7: redirection *)

\* C4: after "echo A > /d/f B" has succeeded, /d/f holds the arguments other
\* than the operator and the target, joined by single spaces, plus a newline;
\* its parent directory exists; nothing was written to the terminal.
C4_EchoToFile ==
    \A pre \in PlainArgLists, post \in PlainArgLists :
        (line = EchoRedirect(pre, <<GT>>, post) /\ pc = "ret" /\ ret = Nil) =>
            /\ Target \in DOMAIN fs
            /\ fs[Target] = Join(pre \o post) \o <<NL>>
            /\ DirD \in dirs
            /\ stdout = <<>>

\* "echo a > /d/f b" has succeeded and its invocation created the directory /d
C4_Witness ==
    /\ line = EchoRedirect(<< <<"a">> >>, <<GT>>, << <<"b">> >>)
    /\ pc = "ret"
    /\ ret = Nil
    /\ trace[1].made = {DirD}
    /\ fs[Target] = <<"a", SP, "b", NL>>

\* C5 (as stated): "echo A 1> /d/f" leaves in /d/f what "echo A > /d/f"
\* leaves (A joined by spaces plus a newline, no extra 1) and the same
\* terminal output (none).
C5_AsStated ==
    \A pre \in PlainArgLists :
        (line = EchoRedirect(pre, <<"1", GT>>, <<>>) /\ pc = "ret" /\ ret = Nil) =>
            /\ Target \in DOMAIN fs
            /\ fs[Target] = Join(pre) \o <<NL>>
            /\ stdout = <<>>

\* C6 (as stated): the argument vector of every spawned child is the
\* operation followed by the argument list the resolver left, i.e. without the
\* redirection operator and its target.
C6_AsStated ==
    \A i \in 1..Len(trace) :
        trace[i].handler = "external" =>
            /\ trace[i].argv = <<trace[i].op>> \o trace[i].args
            /\ \A j \in 1..Len(trace[i].argv) : trace[i].argv[j] \notin {<<GT>>, Target}

\* C7 (as stated): the argument list every builtin handler works on holds no
\* redirection operator followed by a target (the resolver has removed them),
\* so "type echo > /d/f" is no arity error.
C7_AsStated ==
    \A i \in 1..Len(trace) :
        trace[i].handler \in Builtins =>
            /\ (trace[i].out # Nil \/ trace[i].handler # "echo") => RedirectIndex(trace[i].args) = 0
            /\ line = Join(<<W_type, W_echo, <<GT>>, Target>>) => trace[i].err = Nil

----------------------------------------------------------------------------
(* C8 .. C10: errors *)

\* C8: an invocation of the exit builtin terminates the process exactly when
\* it has no argument (code 0) or one argument that Atoi converts (code: its
\* value); otherwise the process lives on and Run goes back to the prompt.
C8_ExitIff ==
    \A i \in 1..Len(trace) :
        trace[i].handler = "exit" =>
            LET a == trace[i].args
                terminated == pc = "exited" /\ i = Len(trace)
            IN
            /\ terminated <=> (Len(a) = 0 \/ (Len(a) = 1 /\ AtoiOk(a[1])))
            /\ terminated => exitCode = <<IF Len(a) = 0 THEN 0 ELSE AtoiVal(a[1])>>
            /\ ~terminated => (pc \in {"ret", "done"} /\ exitCode = NoExit /\ trace[i].err # Nil)

\* "exit 3" ended the process with code 3
C8_Witness ==
    /\ pc = "exited"
    /\ exitCode = <<3>>
    /\ Len(trace) >= 1
    /\ trace[Len(trace)].handler = "exit"
    /\ trace[Len(trace)].args = << <<"3">> >>

\* C9 (as stated): when executeCommand has returned an error to Run, a message
\* for that error has been written to the terminal (either stream).
C9_AsStated ==
    (pc = "done" /\ ret # Nil) => (IsSuffix(ret, stdout) \/ IsSuffix(ret, stderr))

\* C10 (as stated): a command that is neither a builtin nor on the search
\* path writes "<name>: command not found" once to the error stream and
\* nothing to standard output, leaves the process alive and ends the chain.
C10_AsStated ==
    \A i \in 1..Len(trace) :
        trace[i].handler = "notfound" =>
            /\ IsSuffix(NotFoundMsg(trace[i].op), stderr)
            /\ ~IsSuffix(NotFoundMsg(trace[i].op), stdout)
            /\ pc # "exited"
            /\ i = Len(trace)

----------------------------------------------------------------------------
(* C11: type *)

\* the directories of the search path, by position, that hold an executable
\* regular file named x
ExecDirs(x, files) ==
    {i \in 1..Len(PathDirs) : PathJoin(PathDirs[i], x) \in (DOMAIN files) \cap ExecFiles}

\* the line the claim expects of "type x"
TypeReport(x, files) ==
    IF x \in DOMAIN commands
    THEN x \o <<" is a shell builtin", NL>>
    ELSE IF ExecDirs(x, files) # {}
    THEN LET i == CHOOSE i \in ExecDirs(x, files) : \A j \in ExecDirs(x, files) : i <= j
         IN x \o <<" is ">> \o PathJoin(PathDirs[i], x) \o <<NL>>
    ELSE x \o <<": not found", NL>>

\* C11 (as stated): "type X" with one argument prints "X is a shell builtin"
\* for a builtin, else "X is <dir>/X" for the first directory of the search
\* path holding an executable file X, else "X: not found".
C11_AsStated ==
    (Len(trace) > 0 /\ trace[Len(trace)].handler = "_type" /\ Len(trace[Len(trace)].args) = 1)
        => IsSuffix(TypeReport(trace[Len(trace)].args[1], fs), stdout)

----------------------------------------------------------------------------
(* C12: the lifetime of a redirect file *)

\* C12 (as stated): when a command after the first of a chain is about to
\* run, no redirect file of an earlier command is still open; never are two
\* redirect files open at once; none is open once the line is done.
C12_AsStated ==
    /\ (pc = "exec" /\ cur > 1) => open = <<>>
    /\ Len(open) <= 1
    /\ pc \in {"done", "prompt"} => open = <<>>

----------------------------------------------------------------------------
(* C13: no line crashes the shell *)

\* C13: Run never panics; the process is only ever ended by Ctrl+D at the
\* prompt or by an exit builtin that returned no error; while a line is being
\* processed the command to dispatch exists and executeCommand has a branch
\* for it, and after the last handler Run returns and prompts again.
C13_NoCrash ==
    /\ pc \in {"prompt", "exec", "ret", "done", "exited"}
    /\ pc = "exited" =>
          \/ trace = <<>> /\ line = <<>>
          \/ trace # <<>> /\ trace[Len(trace)].handler = "exit" /\ trace[Len(trace)].err = Nil
    /\ pc = "exec" => (cur \in 1..Len(stack) /\ Handler \in (Builtins \cup {"external", "notfound"}))
    /\ pc = "ret" => ENABLED Return
    /\ pc = "done" => ENABLED Prompt

\* a lone && was entered: the parse left no command and Run is back at the
\* head of its loop without having dispatched anything
C13_Witness ==
    /\ pc = "done"
    /\ line = <<AMP, AMP>>
    /\ stack = <<>>
    /\ trace = <<>>

----------------------------------------------------------------------------
(* C14 .. C16: quotes, escapes and && in the scan *)

\* the iteration state of the scan of input when its index first reaches k
RECURSIVE scanTo(_, _, _)
scanTo(input, r, k) == IF r.i >= k THEN r ELSE scanTo(input, scanStep(input, r.i, r.p), k)

\* the state before byte k of line is scanned (Before(k).i = k: an iteration
\* starts at k) and the locals after that iteration
Before(k) == scanTo(line, [i |-> 1, p |-> ParserInit], k)
After(k) == scanStep(line, k, Before(k).p).p

\* the bytes of w as the parser appends them to a token
RECURSIVE WriteAll(_)
WriteAll(w) == IF w = <<>> THEN <<>> ELSE WriteRune(Head(w)) \o WriteAll(Tail(w))

\* the line q w q for a quote character q
Enclosed(q, w) == <<q>> \o w \o <<q>>

Inner(s) == SubSeq(s, 2, Len(s) - 1)

Single(op, args) == <<[op |-> op, args |-> args, nextCommand |-> 0]>>

RECURSIVE SegmentsFrom(_, _, _)
SegmentsFrom(s, i, st) ==
    IF i > Len(s) THEN (IF st.tok THEN 1 ELSE 0)
    ELSE IF st.esc THEN SegmentsFrom(s, i + 1, [st EXCEPT !.esc = FALSE, !.tok = TRUE])
    ELSE IF s[i] = BS THEN SegmentsFrom(s, i + 1, [st EXCEPT !.esc = TRUE])
    ELSE IF s[i] = SQ /\ ~st.dq THEN SegmentsFrom(s, i + 1, [st EXCEPT !.sq = ~@])
    ELSE IF s[i] = DQ /\ ~st.sq THEN SegmentsFrom(s, i + 1, [st EXCEPT !.dq = ~@])
    ELSE IF st.sq \/ st.dq THEN SegmentsFrom(s, i + 1, [st EXCEPT !.tok = TRUE])
    ELSE IF s[i] = AMP /\ i < Len(s) /\ s[i + 1] = AMP
    THEN (IF st.tok THEN 1 ELSE 0) + SegmentsFrom(s, i + 2, [st EXCEPT !.tok = FALSE])
    ELSE IF s[i] \in {SP, GT} THEN SegmentsFrom(s, i + 1, st)
    ELSE SegmentsFrom(s, i + 1, [st EXCEPT !.tok = TRUE])

Segments(s) == SegmentsFrom(s, 1, [sq |-> FALSE, dq |-> FALSE, esc |-> FALSE, tok |-> FALSE])

----------------------------------------------------------------------------
(* C17: parseCommand is independent of earlier parses *)

----------------------------------------------------------------------------
(* C18 .. C20 *)

OsStderr == <<"os.Stderr">>

\* C18 (as stated): a child run without redirection has the shell's standard
\* output as its standard output and the shell's standard error as its
\* standard error.
C18_AsStated ==
    \A i \in 1..Len(trace) :
        (trace[i].handler = "external" /\ \A j \in 2..Len(trace[i].argv) : ~IsRedirect(trace[i].argv[j])) =>
            /\ trace[i].out = OsStdout
            /\ trace[i].errto = OsStderr

\* C19 (as stated): "echo a 2> /d/f" writes a to the terminal (its writer is
\* the standard output, not /d/f), and echo sees neither 2> nor a stray 2 nor
\* /d/f among its arguments.
C19_AsStated ==
    (line = Join(<<W_echo, <<"a">>, <<"2", GT>>, Target>>) /\ pc = "ret" /\ ret = Nil) =>
        /\ stdout = <<"a", NL>>
        /\ trace[1].out = OsStdout
        /\ trace[1].args = << <<"a">> >>

\* C20 (as stated): a backslash scanned inside single quotes (no escape
\* pending) is appended to the token and sets no pending escape, the scan
\* going on at the next byte by the normal rules.
C20_AsStated ==
    pc = "parsed" =>
        \A k \in 1..Len(line) :
            (Before(k).i = k /\ ~Before(k).p.backslash /\ Before(k).p.singleQuote /\ line[k] = BS) =>
                scanStep(line, k, Before(k).p) =
                    [i |-> k + 1, p |-> [Before(k).p EXCEPT !.current_token = @ \o <<BS>>]]

----------------------------------------------------------------------------
(* C21, C22: the resolver *)

\* an argument textually equal to > or 1>
IsOperator(a) == a \in {<<GT>>, <<"1", GT>>}

\* C21 (as stated): a command none of whose arguments is textually > or 1>
\* is not redirected: echo or the external program gets its arguments as
\* parsed, its output goes to the terminal and nothing is created.
C21_AsStated ==
    \A i \in 1..Len(trace) :
        (/\ pc \in {"exec", "ret", "exited"}
         /\ trace[i].handler \in {"echo", "external", "nospawn"}
         /\ trace[i].out # Nil
         /\ \A j \in 1..Len(stack[trace[i].idx].args) : ~IsOperator(stack[trace[i].idx].args[j]))
        => /\ trace[i].args = stack[trace[i].idx].args
           /\ trace[i].out = OsStdout
           /\ trace[i].made = {}

\* the indices of a that hold an operator and are not the last index
OperatorsAt(a) == {i \in 1..(Len(a) - 1) : IsOperator(a[i])}

FirstOf(S) == CHOOSE i \in S : \A j \in S : i <= j

----------------------------------------------------------------------------
(* C23, C24, C26, C28: the chain the parser leaves *)

\* the locals of the scan at the end of line
Final == scan(line, [i |-> 1, p |-> ParserInit])

\* an iteration starts at byte k of line and takes it for the first & of an
\* unquoted, unescaped && pair
SeparatorAt(k) ==
    /\ Before(k).i = k
    /\ ~Before(k).p.backslash
    /\ ~quoted(Before(k).p)
    /\ k < Len(line)
    /\ line[k] = AMP
    /\ line[k + 1] = AMP

\* s with one more space before byte k
InsertSpace(s, k) == SubSeq(s, 1, k - 1) \o <<SP>> \o SubSeq(s, k, Len(s))

\* C23: after parseCommand every command of the chain has a non-empty
\* operation, the chain has no more commands than the line has segments that
\* hold a token, and a line without such a segment leaves an empty chain.
C23_NonEmptyOp ==
    pc = "parsed" =>
        /\ \A i \in 1..Len(stack) : Len(stack[i].op) > 0
        /\ Len(stack) <= Segments(line)
        /\ Segments(line) = 0 => stack = <<>>

\* >&&a has been parsed: the segment > holds no operation and left no command
\* of its own
C23_Witness ==
    /\ pc = "parsed"
    /\ line = <<GT, AMP, AMP, "a">>
    /\ Len(stack) = 1
    /\ stack[1].op = <<"a">>

\* C24 (as stated): the iteration that takes an unquoted && leaves the
\* per-command locals reset (no operation, no arguments, first-token flag
\* set, empty token), whether or not the segment before it had an operation
\* token; so >&&a parses to the command a without arguments.
C24_AsStated ==
    pc = "parsed" =>
        /\ \A k \in 1..Len(line) :
              SeparatorAt(k) =>
                  /\ After(k).current = EmptyCommand
                  /\ After(k).isFirst
                  /\ After(k).current_token = <<>>
        /\ line = <<GT, AMP, AMP, "a">> => stack = Single(<<"a">>, <<>>)

\* C26 (as stated): a line that ends inside an open single (double) quote
\* parses to the chain of the line with a single (double) quote appended.
C26_AsStated ==
    pc = "parsed" =>
        /\ Final.singleQuote => stack = parseCommand(line \o <<SQ>>)
        /\ Final.doubleQuote => stack = parseCommand(line \o <<DQ>>)

\* C26 (amended): the same for a line that ends inside an open quote and not
\* in a backslash whose escaped character is still to come.
C26_ClosedAtEnd ==
    (pc = "parsed" /\ ~Final.backslash) =>
        /\ Final.singleQuote => stack = parseCommand(line \o <<SQ>>)
        /\ Final.doubleQuote => stack = parseCommand(line \o <<DQ>>)

\* a "a has been parsed, its last token pending inside the open quote, to
\* the command a with the argument a
C26_Witness ==
    /\ pc = "parsed"
    /\ line = <<"a", SP, DQ, "a">>
    /\ Final.doubleQuote
    /\ stack = Single(<<"a">>, << <<"a">> >>)

\* C28: no argument of the chain is the empty string; one more space next to
\* an unquoted, unescaped space, or before or after an unquoted && pair,
\* gives a line that parses to the same chain.
C28_Spaces ==
    pc = "parsed" =>
        /\ \A i \in 1..Len(stack) : \A j \in 1..Len(stack[i].args) : stack[i].args[j] # <<>>
        /\ \A k \in 1..Len(line) :
              /\ (Before(k).i = k /\ ~Before(k).p.backslash /\ ~quoted(Before(k).p) /\ line[k] = SP)
                    => parseCommand(InsertSpace(line, k)) = stack
              /\ SeparatorAt(k)
                    => /\ parseCommand(InsertSpace(line, k)) = stack
                       /\ parseCommand(InsertSpace(line, k + 2)) = stack

\* a, two spaces, a has been parsed to the command a with the one argument a
C28_Witness ==
    /\ pc = "parsed"
    /\ line = <<"a", SP, SP, "a">>
    /\ stack = Single(<<"a">>, << <<"a">> >>)

----------------------------------------------------------------------------
(* C25: a redirect target that cannot be created *)

\* the step in which a handler returns the error of the resolver
FailedRedirect ==
    /\ pc = "exec"
    /\ Len(trace') = Len(trace) + 1
    /\ trace'[Len(trace')].err # Nil
    /\ trace'[Len(trace')].err[1] \in {"Error creating directory: ", "Error creating output file: "}

\* what the claim lists: nothing written to the terminal or a file, the
\* arguments as parsed, no process spawned, the continuation not invoked and
\* the error returned
FailsClean ==
    /\ stdout' = stdout
    /\ stderr' = stderr
    /\ fs' = fs
    /\ trace'[Len(trace')].args = stack[cur].args
    /\ trace'[Len(trace')].handler # "external"
    /\ pc' = "ret"
    /\ cur' = cur
    /\ ret' = trace'[Len(trace')].err

\* C25 (as stated): a command whose redirect directory or file cannot be
\* created fails without any side effect.
C25_AsStated == [][FailedRedirect => (FailsClean /\ dirs' = dirs)]_vars

\* C25 (amended): such a command writes nothing, keeps its arguments, spawns
\* nothing and does not invoke its continuation; the only thing it may leave
\* behind is the directory it made for a file that could then not be created.
C25_FailsClean == [][FailedRedirect => (FailsClean /\ dirs' \subseteq dirs \cup Ancestors(DirD))]_vars

\* the first command of a two-command chain could not create its file after
\* making the directory: nothing was written and the second command never ran
C25_Witness ==
    /\ pc = "ret"
    /\ Len(stack) = 2
    /\ Len(trace) = 1
    /\ trace[1].err # Nil
    /\ trace[1].err[1] = "Error creating output file: "
    /\ trace[1].made = {DirD}
    /\ stdout = <<>>

----------------------------------------------------------------------------
(* C27: the lifetime of the chain *)

----------------------------------------------------------------------------
(* C29: the chain is a finite list and its execution ends *)

\* every command but the last has the next one as successor, no command is
\* invoked twice or out of order, and no more handlers are invoked than the
\* chain has commands
ChainShape ==
    pc \in {"exec", "ret", "exited"} =>
        /\ \A i \in 1..Len(stack) : stack[i].nextCommand = IF i < Len(stack) THEN i + 1 ELSE 0
        /\ Len(trace) <= Len(stack)
        /\ \A i \in 1..Len(trace) : \A j \in 1..Len(trace) : i < j => trace[i].idx < trace[j].idx
        /\ pc = "exec" => cur = Len(trace) + 1

\* C29: the parsed chain is an acyclic list in line order, executing it takes
\* at most one handler invocation per command, and the execution of every
\* line comes to its end (return to Run, or exit).
C29_Terminates == [](ChainShape) /\ ((pc = "exec") ~> (pc \in {"done", "exited"}))

\* all three handlers of a three-command chain have been invoked, the last
\* command having no successor
C29_Witness ==
    /\ pc = "ret"
    /\ Len(stack) = 3
    /\ stack[1].nextCommand = 2
    /\ stack[2].nextCommand = 3
    /\ stack[3].nextCommand = 0
    /\ Len(trace) = 3

----------------------------------------------------------------------------
(* C30: the dispatcher and type agree *)

\* what "type x" prints
TypeSays(x) == _type(<<x>>, fs, dirs, cwd).text

====
